---- MODULE Spec2Model ----
(***************************************************************************)
(* Model of the email-to-telegram forwarder: the Forward Cycle             *)
(* (forward.run), the Scheduler (main 'run'), the Delivery Channel         *)
(* (forward.send_telegram), the on-demand selection                        *)
(* (forward.get_latest_claude_link_from_gmail), the Bot Loop               *)
(* (telegram_bot.run_bot, handle_update), the ProcessingState store        *)
(* (forward.load_state, save_state) and the Link Extractor                 *)
(* (forward.extract_claude_magic_link).                                    *)
(*                                                                         *)
(* Text is modelled as TLA+ strings, an optional value (Python None) as    *)
(* the empty tuple <<>> and a present value v as <<v>>.                    *)
(***************************************************************************)
EXTENDS Integers, Sequences, FiniteSets, TLC

\* ---------------------------------------------------------------- bounds
\* Message ids (IMAP uids) range over 1..MaxUid.
MaxUid == 2
\* Number of Forward Cycles one process runs.
MaxCycles == 2
\* Longest text handed to send_telegram alone, in chunks.
MaxChunks == 3

\* ------------------------------------------------------ program constants
TELEGRAM_MAX_LENGTH == 4050

None == <<>>
Some(v) == <<v>>

\* ------------------------------------------------------- Python str model
UpperChars == "ABCDEFGHIJKLMNOPQRSTUVWXYZ"
LowerChars == "abcdefghijklmnopqrstuvwxyz"

CharAt(s, i) == SubSeq(s, i, i)

LowerChar(c) ==
    IF \E i \in 1..Len(UpperChars) : CharAt(UpperChars, i) = c
    THEN CharAt(LowerChars, CHOOSE i \in 1..Len(UpperChars) : CharAt(UpperChars, i) = c)
    ELSE c

RECURSIVE Lower(_)
\* str.lower()
Lower(s) == IF Len(s) = 0 THEN "" ELSE LowerChar(CharAt(s, 1)) \o Lower(SubSeq(s, 2, Len(s)))

\* k in s
Contains(s, k) == \E i \in 1..(Len(s) - Len(k) + 1) : SubSeq(s, i, i + Len(k) - 1) = k

\* s.startswith(k)
StartsWith(s, k) == Len(s) >= Len(k) /\ SubSeq(s, 1, Len(k)) = k

IsSpace(c) == c \in {" ", "\t", "\n", "\r"}

RECURSIVE LStrip(_)
LStrip(s) == IF Len(s) > 0 /\ IsSpace(CharAt(s, 1)) THEN LStrip(SubSeq(s, 2, Len(s))) ELSE s

RECURSIVE RStripChars(_, _)
\* s.rstrip(chars), chars a set of characters
RStripChars(s, chars) ==
    IF Len(s) > 0 /\ CharAt(s, Len(s)) \in chars
    THEN RStripChars(SubSeq(s, 1, Len(s) - 1), chars)
    ELSE s

\* s.strip()
Strip(s) == RStripChars(LStrip(s), {" ", "\t", "\n", "\r"})

RECURSIVE Join(_, _)
\* sep.join(parts)
Join(sep, parts) ==
    IF Len(parts) = 0 THEN ""
    ELSE IF Len(parts) = 1 THEN parts[1]
    ELSE parts[1] \o sep \o Join(sep, Tail(parts))

\* ------------------------------------------------------ decode_mime_header
\* A Subject header is None or the list email.header.decode_header gives:
\* parts [part, bytes, enc], enc = "" standing for None.
KnownCodecs == {"utf-8", "us-ascii", "iso-8859-1"}

\* bytes.decode(enc or "utf-8", errors="replace") raises LookupError on an
\* unknown codec name.
PartRaises(p) == p.bytes /\ p.enc # "" /\ p.enc \notin KnownCodecs

decode_mime_header_raises(header) ==
    /\ header # None
    /\ \E i \in 1..Len(header[1]) : PartRaises(header[1][i])

decode_mime_header(header) ==
    IF header = None THEN ""
    ELSE Strip(Join(" ", [i \in 1..Len(header[1]) |-> header[1][i].part]))

\* "secure link" not in subject.lower() or "claude" not in subject.lower()
SubjectRejected(subject) ==
    ~Contains(Lower(subject), "secure link") \/ ~Contains(Lower(subject), "claude")

\* ------------------------------------------------ extract_claude_magic_link
LinkPrefix == "https://claude.ai/magic-link#"

\* [^\s"'<>)\]\s]
IsLinkChar(c) == ~IsSpace(c) /\ c \notin {"\"", "'", "<", ">", ")", "]"}

\* Positions where CLAUDE_MAGIC_LINK_RE (re.IGNORECASE) matches.
MatchStarts(s) ==
    {i \in 1..Len(s) :
        /\ i + Len(LinkPrefix) <= Len(s)
        /\ Lower(SubSeq(s, i, i + Len(LinkPrefix) - 1)) = LinkPrefix
        /\ IsLinkChar(CharAt(s, i + Len(LinkPrefix)))}

RECURSIVE MatchEnd(_, _)
\* Greedy "+": the last position of the run of link characters from j on.
MatchEnd(s, j) ==
    IF j + 1 <= Len(s) /\ IsLinkChar(CharAt(s, j + 1)) THEN MatchEnd(s, j + 1) ELSE j

Min(S) == CHOOSE x \in S : \A y \in S : x <= y
Max(S) == CHOOSE x \in S : \A y \in S : x >= y

\* scan(payload): payload is None or the decoded bytes of one part.
scan(payload) ==
    IF payload = None \/ Len(payload[1]) = 0 THEN None
    ELSE IF MatchStarts(payload[1]) = {} THEN None
    ELSE LET s   == payload[1]
             i   == Min(MatchStarts(s))
             m   == SubSeq(s, i, MatchEnd(s, i + Len(LinkPrefix)))
             url == RStripChars(m, {"'", "\"", ">", ")", "]"})
         IN  IF StartsWith(url, "http") THEN Some(url) ELSE None

RECURSIVE FirstLink(_)
\* The loop over msg.walk(): the first part whose scan is truthy.
FirstLink(payloads) ==
    IF Len(payloads) = 0 THEN None
    ELSE IF scan(Head(payloads)) # None THEN scan(Head(payloads))
    ELSE FirstLink(Tail(payloads))

\* msg.payloads lists part.get_payload(decode=True) in walk() order; for a
\* multipart message the first entry is the container (payload None).
extract_claude_magic_link(msg) ==
    IF msg.multipart THEN FirstLink(msg.payloads) ELSE scan(msg.payloads[1])

\* --------------------------------------------- the content parts of a message
\* Stands for the byte 0x00 in a payload.
NUL == "~"

RECURSIVE Utf16(_)
\* text.encode("utf-16-le") of an ASCII text: every character and a zero byte.
Utf16(text) ==
    IF Len(text) = 0 THEN "" ELSE CharAt(text, 1) \o NUL \o Utf16(SubSeq(text, 2, Len(text)))

\* The bytes part.get_payload(decode=True) gives for a part whose text is
\* in the declared charset: the transfer encoding is undone, the charset
\* is not.
Payload(text, charset) == IF charset = "utf-16-le" THEN Utf16(text) ELSE text

\* A leaf part whose text holds url between before and after; url = None
\* for a part without the link.
Part(before, url, after, charset) ==
    [payload |-> Some(Payload(before \o (IF url = None THEN "" ELSE url[1]) \o after, charset)),
     charset |-> charset,
     url     |-> url]

\* A part without payload: a multipart container.
Container == [payload |-> None, charset |-> "", url |-> None]

Parts ==
    << Part("Sign in (", Some("https://claude.ai/magic-link#abc123"), ") now", "utf-8"),
       Part("<a href=\"", Some("https://claude.ai/magic-link#tok9:XyZ"), "\">Sign in</a>", "utf-8"),
       Part("Links: ['", Some("https://claude.ai/magic-link#q7"), "']", "iso-8859-1"),
       Part("Sign in: ", Some("https://claude.ai/magic-link#w16"), "\n", "utf-16-le"),
       Part("Your link has expired: https://claude.ai/login", None, "", "utf-8"),
       Part("HTTPS://CLAUDE.AI/MAGIC-LINK#UP1", None, "", "utf-8"),
       Container >>

\* ------------------------------------------------------------ the mailbox
Uids == 1..MaxUid

\* The kinds of message a mailbox can hold. header is what decode_header
\* gives for the Subject (None: no Subject header); server_subject is the
\* subject text the server matches SEARCH SUBJECT against.
GoodPlain ==
    [header |-> Some(<<[part |-> "Secure link to log in to Claude.ai", bytes |-> FALSE, enc |-> ""]>>),
     server_subject |-> "Secure link to log in to Claude.ai",
     today |-> TRUE, multipart |-> FALSE,
     payloads |-> <<Some("Sign in (https://claude.ai/magic-link#abc123) now")>>]
GoodHtml ==
    [header |-> Some(<<[part |-> " SECURE LINK to log in to CLAUDE.AI", bytes |-> TRUE, enc |-> "utf-8"]>>),
     server_subject |-> "SECURE LINK to log in to CLAUDE.AI",
     today |-> TRUE, multipart |-> TRUE,
     payloads |-> <<None, Some("Open the mail in HTML."),
                    Some("<a href=\"https://claude.ai/magic-link#tok9:XyZ\">Sign in</a>")>>]
NoLink ==
    [header |-> Some(<<[part |-> "Secure link to log in to Claude.ai", bytes |-> FALSE, enc |-> ""]>>),
     server_subject |-> "Secure link to log in to Claude.ai",
     today |-> TRUE, multipart |-> FALSE,
     payloads |-> <<Some("Your link has expired: https://claude.ai/login")>>]
OtherSender ==
    [header |-> Some(<<[part |-> "Secure link to log in to Acme", bytes |-> FALSE, enc |-> ""]>>),
     server_subject |-> "Secure link to log in to Acme",
     today |-> TRUE, multipart |-> FALSE,
     payloads |-> <<Some("Phish: https://claude.ai/magic-link#evil00 ")>>]
BadCharset ==
    [header |-> Some(<<[part |-> "Secure link to log in to Claude.ai", bytes |-> TRUE, enc |-> "x-unknown"]>>),
     server_subject |-> "Secure link to log in to Claude.ai",
     today |-> TRUE, multipart |-> FALSE,
     payloads |-> <<Some("https://claude.ai/magic-link#cs7777")>>]
Yesterday ==
    [header |-> Some(<<[part |-> "Secure link to log in to Claude.ai", bytes |-> FALSE, enc |-> ""]>>),
     server_subject |-> "Secure link to log in to Claude.ai",
     today |-> FALSE, multipart |-> FALSE,
     payloads |-> <<Some("https://claude.ai/magic-link#old111")>>]
Newsletter ==
    [header |-> Some(<<[part |-> "Claude news", bytes |-> FALSE, enc |-> ""]>>),
     server_subject |-> "Claude news",
     today |-> TRUE, multipart |-> FALSE,
     payloads |-> <<Some("Read more: https://claude.ai/magic-link#news22")>>]

MessageKinds == <<GoodPlain, GoodHtml, NoLink, OtherSender, BadCharset, Yesterday, Newsletter>>

\* ---------------------------------------------------- the push transport
\* A sendMessage response: status_code, text (the raw body) and json, what
\* r.json() gives: None when the body is not JSON, else the object with its
\* optional description.
R200 == [status_code |-> 200, text |-> "{\"ok\":true}", json |-> Some([description |-> None])]
R400parse ==
    [status_code |-> 400, text |-> "{\"ok\":false,\"description\":\"Bad Request: can't parse entities\"}",
     json |-> Some([description |-> Some("Bad Request: can't parse entities")])]
R400cant ==
    [status_code |-> 400, text |-> "{\"ok\":false,\"description\":\"Bad Request: can't initiate conversation\"}",
     json |-> Some([description |-> Some("Bad Request: can't initiate conversation")])]
R403cant ==
    [status_code |-> 403,
     text |-> "{\"ok\":false,\"description\":\"Forbidden: bot can't initiate conversation with a user\"}",
     json |-> Some([description |-> Some("Forbidden: bot can't initiate conversation with a user")])]
R403blocked ==
    [status_code |-> 403, text |-> "{\"ok\":false,\"description\":\"Forbidden: bot was blocked by the user\"}",
     json |-> Some([description |-> Some("Forbidden: bot was blocked by the user")])]
R403empty == [status_code |-> 403, text |-> "", json |-> None]
R500nodesc == [status_code |-> 500, text |-> "{\"ok\":false}", json |-> Some([description |-> None])]
R502html == [status_code |-> 502, text |-> "<html>502 Bad Gateway</html>", json |-> None]

Responses == {R200, R400parse, R400cant, R403cant, R403blocked, R403empty, R500nodesc, R502html}

\* requests.RequestException raised by requests.post (timeout, connection error).
PostErrors == {"Read timed out.", "Connection aborted."}

\* What one requests.post can do: raise, or return a response.
PostOutcomes == {[exc |-> Some(e), r |-> None] : e \in PostErrors}
                  \cup {[exc |-> None, r |-> Some(r)] : r \in Responses}

\* ------------------------------------------------------------------ state
VARIABLES
    msgs,       \* the mailbox: uid -> index into MessageKinds, 0 for no message
    seen,       \* the uids whose \Seen flag is set on the server
    cmd,        \* the command main was started with: "run" | "forward" | "bot"
    dry_run,    \* --dry-run
    pc,         \* where the Scheduler / Forward Cycle is
    cycle,      \* number of Forward Cycles started
    uids,       \* run's uids: the sorted candidates of the current cycle
    idx,        \* position of the candidate loop in uids (1-based)
    acts,       \* what the current cycle did so far: <<operation, uid>>
    selected,   \* cycle -> the uids its unread search returned
    delivered,  \* cycle -> the uids whose link send_telegram delivered
    ended,      \* how the last Forward Cycle ended
    st,         \* the activation of send_telegram
    od,         \* the activation of get_latest_claude_link_from_gmail
    store,      \* state.json, the state run has loaded, the calls of load_state and save_state
    seen0,      \* the read flags when the current Forward Cycle started
    bot,        \* run_bot: its position, offset, the batch in hand, what it has done
    pending,    \* the updates Telegram holds for the bot (q), the next update id, and
                \* the kind of every update that arrived, by id (all)
    ex          \* an activation of extract_claude_magic_link on its own

vars == <<msgs, seen, cmd, dry_run, pc, cycle, uids, idx, acts, selected,
          delivered, ended, st, od, store, seen0, bot, pending, ex>>

botVars == <<bot, pending>>
otherVars == <<store, seen0, bot, pending, ex>>

mailVars == <<msgs, seen>>
runVars == <<cmd, dry_run, pc, cycle, uids, idx, acts, selected, delivered, ended>>

\* ------------------------------------------------------------ send_telegram
\* st.calls lists the posts made, st.last is the outcome of the latest one.
StIdle ==
    [pc |-> "idle", text |-> "", cid |-> "", i |-> 0, calls |-> <<>>, last |-> None, result |-> None]

\* for i in range(0, len(text), TELEGRAM_MAX_LENGTH): the first iteration
StCall(text, cid) ==
    IF Len(text) = 0
    THEN [pc |-> "returned", text |-> text, cid |-> cid, i |-> 0, calls |-> <<>>,
          last |-> None, result |-> Some(<<TRUE, None>>)]
    ELSE [pc |-> "html", text |-> text, cid |-> cid, i |-> 0, calls |-> <<>>,
          last |-> None, result |-> None]

\* Mutant of Chunk: the slice ends one unit early, text[i : i + TELEGRAM_MAX_LENGTH - 1].
Chunk_ShortByOne(text, i) ==
    SubSeq(text, i + 1,
           IF i + TELEGRAM_MAX_LENGTH - 1 < Len(text) THEN i + TELEGRAM_MAX_LENGTH - 1 ELSE Len(text))

\* chunk = text[i : i + TELEGRAM_MAX_LENGTH]
Chunk(text, i) ==
    SubSeq(text, i + 1, IF i + TELEGRAM_MAX_LENGTH < Len(text) THEN i + TELEGRAM_MAX_LENGTH ELSE Len(text))

\* The record of one requests.post of send_telegram.
Call(s, mode, o) ==
    [i |-> s.i, chat_id |-> s.cid, text |-> Chunk(s.text, s.i), parse_mode |-> mode,
     status |-> IF o.exc # None THEN 0 ELSE o.r[1].status_code]

\* except requests.RequestException as e: return False, f"Telegram request failed: {e}"
RequestFailed(s, e) ==
    [s EXCEPT !.pc = "returned", !.result = Some(<<FALSE, Some("Telegram request failed: " \o e)>>)]

\* The slice was accepted: the next iteration of the range, or return True, None.
NextSlice(s) ==
    IF s.i + TELEGRAM_MAX_LENGTH < Len(s.text)
    THEN [s EXCEPT !.pc = "html", !.i = s.i + TELEGRAM_MAX_LENGTH]
    ELSE [s EXCEPT !.pc = "returned", !.result = Some(<<TRUE, None>>)]

MustMessageFirst ==
    "Telegram 403: The recipient must message the bot first (e.g. send 'hi' to the bot), then run again."

\* desc = data.get("description", r.text or str(r.status_code)), data = r.json() if r.text else {}
Description(r) ==
    IF r.text # "" /\ r.json[1].description # None THEN r.json[1].description[1]
    ELSE IF r.text # "" THEN r.text
    ELSE ToString(r.status_code)

\* r.json() raises requests.exceptions.JSONDecodeError, a RequestException,
\* when the body is not empty and not JSON.
JsonRaises(r) == r.text # "" /\ r.json = None

IsCantInitiate(r) ==
    r.status_code = 403 /\ Contains(Lower(Description(r)), "can't initiate conversation")

\* The second "if r.status_code != 200" block: the reason of a failed slice,
\* None standing for r.json() raising.
FailureReason ==
    [r \in Responses |->
        IF JsonRaises(r) THEN None
        ELSE IF IsCantInitiate(r) THEN Some(MustMessageFirst)
        ELSE Some("Telegram API error: " \o ToString(r.status_code) \o " " \o Description(r))]

SliceFailed(s, r) ==
    IF FailureReason[r] = None
    THEN RequestFailed(s, "Expecting value: line 1 column 1 (char 0)")
    ELSE [s EXCEPT !.pc = "returned", !.result = Some(<<FALSE, FailureReason[r]>>)]

\* Mutant of AfterHtml: the plain-text post is made whatever the HTML post returned.
AfterHtml_AlwaysPlain(s, r) == [s EXCEPT !.pc = "plain"]

\* After the parse_mode=HTML post returned r: retry as plain text or go on.
AfterHtml(s, r) == IF r.status_code # 200 THEN [s EXCEPT !.pc = "plain"] ELSE NextSlice(s)

\* Mutant of AfterPlain: a rejected slice is dropped and the loop goes on.
AfterPlain_Continue(s, r) == NextSlice(s)

\* After the plain-text post returned r.
AfterPlain(s, r) == IF r.status_code # 200 THEN SliceFailed(s, r) ELSE NextSlice(s)

\* r = requests.post(url, json={chat_id, text, parse_mode: HTML})
SendHtmlAttempt ==
    /\ st.pc = "html"
    /\ \E o \in PostOutcomes :
         LET s == [st EXCEPT !.calls = Append(@, Call(st, "HTML", o)), !.last = Some(o)]
         IN  st' = IF o.exc # None THEN RequestFailed(s, o.exc[1]) ELSE AfterHtml(s, o.r[1])
    /\ UNCHANGED <<mailVars, runVars, od, otherVars>>

\* r = requests.post(url, data={chat_id, text})
SendPlainAttempt ==
    /\ st.pc = "plain"
    /\ \E o \in PostOutcomes :
         LET s == [st EXCEPT !.calls = Append(@, Call(st, "", o)), !.last = Some(o)]
         IN  st' = IF o.exc # None THEN RequestFailed(s, o.exc[1]) ELSE AfterPlain(s, o.r[1])
    /\ UNCHANGED <<mailVars, runVars, od, otherVars>>

\* trace lists the outcomes of client.search and client.fetch, exc is the
\* exception one of them raised.
OdIdle == [pc |-> "idle", uids |-> {}, fetched |-> {}, result |-> None, trace |-> <<>>, exc |-> None]

\* state.json as the file system holds it: text is the sequence of JSON tokens.
NoFile == [exists |-> FALSE, readable |-> TRUE, utf8 |-> TRUE, text |-> <<>>]

StoreIdle == [file |-> NoFile, state |-> None, saved |-> None, loads |-> 0, saves |-> 0]
\* dropped: the ids of the updates that were left in a batch when the
\* handling of an earlier update of the batch raised.
BotIdle ==
    [pc |-> "off", offset |-> None, batch |-> <<>>, k |-> 0, polls |-> "", log |-> <<>>,
     dropped |-> {}]
ExIdle == [pc |-> "idle", multipart |-> FALSE, parts |-> <<>>, result |-> None]

\* ------------------------------------- send_telegram on its own (SpecSend)
\* A text of n code units, each labelled by its position.
Text(n) == [k \in 1..n |-> k]

TextLengths ==
    {0, 1, 10000} \cup {k * TELEGRAM_MAX_LENGTH : k \in 1..MaxChunks}
                  \cup {k * TELEGRAM_MAX_LENGTH + 1 : k \in 1..(MaxChunks - 1)}

InitSend ==
    /\ msgs = [u \in Uids |-> 0]
    /\ seen = {}
    /\ cmd = "send"
    /\ dry_run = FALSE
    /\ pc = "exited"
    /\ cycle = 0
    /\ uids = <<>>
    /\ idx = 0
    /\ acts = <<>>
    /\ selected = [c \in 1..MaxCycles |-> {}]
    /\ delivered = [c \in 1..MaxCycles |-> {}]
    /\ ended = ""
    /\ st = StIdle
    /\ od = OdIdle
    /\ store = StoreIdle
    /\ seen0 = seen
    /\ bot = BotIdle
    /\ pending = [q |-> <<>>, next |-> 1, all |-> <<>>]
    /\ ex = ExIdle

\* send_telegram(text) called with the default chat.
SendCall ==
    /\ cmd = "send"
    /\ st.pc = "idle"
    /\ \E n \in TextLengths : st' = StCall(Text(n), "chat")
    /\ UNCHANGED <<mailVars, runVars, od, otherVars>>

NextSend == SendCall \/ SendHtmlAttempt \/ SendPlainAttempt

SpecSend == InitSend /\ [][NextSend]_vars

\* ------------------- extract_claude_magic_link on its own (SpecExtract)
\* Most parts after the container of a multipart message.
MaxParts == 2

\* The message of ex as email.message_from_bytes gives it: a multipart
\* message is walked from its container on.
ExMessage(e) ==
    [multipart |-> e.multipart,
     payloads  |-> IF e.multipart
                   THEN <<None>> \o [i \in 1..Len(e.parts) |-> Parts[e.parts[i]].payload]
                   ELSE [i \in 1..Len(e.parts) |-> Parts[e.parts[i]].payload]]

InitExtract ==
    /\ msgs = [u \in Uids |-> 0]
    /\ seen = {}
    /\ cmd = "extract"
    /\ pc = "exited"
    /\ dry_run = FALSE
    /\ cycle = 0
    /\ uids = <<>>
    /\ idx = 0
    /\ acts = <<>>
    /\ selected = [c \in 1..MaxCycles |-> {}]
    /\ delivered = [c \in 1..MaxCycles |-> {}]
    /\ ended = ""
    /\ st = StIdle
    /\ od = OdIdle
    /\ store = StoreIdle
    /\ seen0 = seen
    /\ bot = BotIdle
    /\ pending = [q |-> <<>>, next |-> 1, all |-> <<>>]
    /\ \E multipart \in BOOLEAN, n \in 1..MaxParts :
         \E ps \in [1..n -> 1..Len(Parts)] :
            /\ ~multipart => n = 1 /\ Parts[ps[1]].payload # None
            /\ ex = [pc |-> "ready", multipart |-> multipart, parts |-> ps, result |-> None]

\* magic_link = extract_claude_magic_link(msg)
Extract ==
    /\ ex.pc = "ready"
    /\ ex' = [ex EXCEPT !.pc = "done", !.result = extract_claude_magic_link(ExMessage(ex))]
    /\ UNCHANGED <<mailVars, runVars, st, od, store, seen0, botVars>>

NextExtract == Extract

SpecExtract == InitExtract /\ [][NextExtract]_vars

\* ------------------------------------------------- the mailbox server
\* SEARCH SUBJECT: case-insensitive substring match on the subject.
SubjectMatches(m, key) == Contains(Lower(m.server_subject), Lower(key))

\* Per kind of message: does SEARCH SUBJECT "Secure link" ON <today> hit it.
SearchHit ==
    [k \in 1..Len(MessageKinds) |->
        SubjectMatches(MessageKinds[k], "Secure link") /\ MessageKinds[k].today]

\* client.search(["SUBJECT", "Secure link", "ON", today_str])
TodaySearch(mb) == {u \in Uids : mb[u] # 0 /\ SearchHit[mb[u]]}

\* Mutant of UnreadSearch: the UNSEEN criterion is dropped.
UnreadSearch_NoUnseen(mb, sn) == TodaySearch(mb)

\* client.search(["UNSEEN", "SUBJECT", "Secure link", "ON", today_str])
UnreadSearch(mb, sn) ==
    {u \in Uids : mb[u] # 0 /\ u \notin sn /\ SearchHit[mb[u]]}

\* The orders in which the server may list the ids of S.
Listings(S) ==
    {q \in [1..Cardinality(S) -> S] : \A i, j \in 1..Cardinality(S) : i # j => q[i] # q[j]}

\* sorted(uids)
sorted(q) ==
    CHOOSE r \in Listings({q[i] : i \in 1..Len(q)}) : \A i, j \in 1..Len(r) : i < j => r[i] < r[j]

\* Mutant of SeenAfterFetch: the folder is taken as read-write whatever
\* select_folder was given.
SeenAfterFetch_ReadWrite(sn, uid, readonly) == sn \cup {uid}

\* FETCH RFC822 (BODY[] without PEEK) in a folder selected read-write
\* sets \Seen on the message (RFC 3501, 6.4.5); select_folder(readonly=True)
\* keeps the flags.
SeenAfterFetch(sn, uid, readonly) == IF readonly THEN sn ELSE sn \cup {uid}

\* ------------------------------- ProcessingState: load_state, save_state
\* A JSON value is <<"object", key, type, text>> for an object of one key,
\* <<"object">> for {}, <<"list">> for [], <<"int", digits>>,
\* <<"str", chars>> or <<"null", "">>. A JSON text is its sequence of tokens.
Digits == "0123456789"

IsInt(tok) ==
    Len(tok) > 0 /\ \A i \in 1..Len(tok) : \E j \in 1..Len(Digits) : CharAt(tok, i) = CharAt(Digits, j)

IsStr(tok) == Len(tok) >= 2 /\ CharAt(tok, 1) = "\"" /\ CharAt(tok, Len(tok)) = "\""

Quote(str) == "\"" \o str \o "\""
Unquote(tok) == SubSeq(tok, 2, Len(tok) - 1)

JInt(n) == <<"int", ToString(n)>>
JStr(str) == <<"str", str>>
JObj(key, v) == <<"object", key, v[1], v[2]>>

\* The ProcessingState {"last_uid": n}.
State(n) == JObj("last_uid", JInt(n))

\* return {"last_uid": 0}
DefaultState == State(0)

ScalarText(v) ==
    IF v[1] = "str" THEN Quote(v[2]) ELSE IF v[1] = "null" THEN "null" ELSE v[2]

\* json.dump(state, f, indent=2)
JsonDump(v) ==
    IF v[1] = "object" /\ Len(v) = 4
    THEN <<"{", Quote(v[2]), ":", ScalarText(<<v[3], v[4]>>), "}">>
    ELSE IF v[1] = "object" THEN <<"{", "}">>
    ELSE IF v[1] = "list" THEN <<"[", "]">>
    ELSE <<ScalarText(v)>>

ParseScalar(tok) ==
    IF tok = "null" THEN Some(<<"null", "">>)
    ELSE IF IsStr(tok) THEN Some(JStr(Unquote(tok)))
    ELSE IF IsInt(tok) THEN Some(<<"int", tok>>)
    ELSE None

\* json.load(f): the value, None standing for json.JSONDecodeError.
JsonLoad(t) ==
    IF Len(t) = 1 THEN ParseScalar(t[1])
    ELSE IF Len(t) = 2 /\ t[1] = "[" /\ t[2] = "]" THEN Some(<<"list">>)
    ELSE IF Len(t) = 2 /\ t[1] = "{" /\ t[2] = "}" THEN Some(<<"object">>)
    ELSE IF /\ Len(t) = 5
            /\ t[1] = "{" /\ IsStr(t[2]) /\ t[3] = ":" /\ t[5] = "}"
            /\ ParseScalar(t[4]) # None
    THEN Some(JObj(Unquote(t[2]), ParseScalar(t[4])[1]))
    ELSE None

TextFile(t) == [exists |-> TRUE, readable |-> TRUE, utf8 |-> TRUE, text |-> t]

\* A file open() refuses with PermissionError, an IOError.
Unreadable == [exists |-> TRUE, readable |-> FALSE, utf8 |-> TRUE, text |-> <<>>]

\* A file whose bytes are not text in the encoding of open():
\* f.read() raises UnicodeDecodeError.
Undecodable == [exists |-> TRUE, readable |-> TRUE, utf8 |-> FALSE, text |-> <<>>]

Returned(v) == [raised |-> None, value |-> Some(v)]
Raised(e) == [raised |-> Some(e), value |-> None]

\* load_state(): except (json.JSONDecodeError, IOError) covers a file that
\* cannot be opened or parsed; UnicodeDecodeError is neither.
load_state(f) ==
    IF ~f.exists THEN Returned(DefaultState)
    ELSE IF ~f.readable THEN Returned(DefaultState)
    ELSE IF ~f.utf8 THEN Raised("UnicodeDecodeError")
    ELSE IF JsonLoad(f.text) = None THEN Returned(DefaultState)
    ELSE Returned(JsonLoad(f.text)[1])

\* save_state(state): open(STATE_FILE, "w"), json.dump.
save_state(state) == TextFile(JsonDump(state))

\* ------------------------- load_state and save_state on their own (SpecState)
\* Greatest last_uid a saved state holds.
MaxLastUid == 2
\* Number of calls of load_state, and of save_state, in one behaviour.
MaxOps == 2

\* What state.json can hold when load_state finds it: a saved state, a
\* write cut short, other JSON, bytes that are no text.
StateFiles ==
    {NoFile, Unreadable, Undecodable}
    \cup {save_state(State(n)) : n \in 0..MaxLastUid}
    \cup {TextFile(t) : t \in {<<>>, <<"{">>, <<"{", "\"last_uid\"", ":">>,
                               <<"[", "]">>, <<"{", "}">>, <<"null">>, <<"7">>,
                               <<"{", "\"last_uid\"", ":", "\"7\"", "}">>,
                               <<"{", "\"uid\"", ":", "1", "}">>}}

InitState ==
    /\ msgs = [u \in Uids |-> 0]
    /\ seen = {}
    /\ cmd = "state"
    /\ pc = "exited"
    /\ dry_run = FALSE
    /\ cycle = 0
    /\ uids = <<>>
    /\ idx = 0
    /\ acts = <<>>
    /\ selected = [c \in 1..MaxCycles |-> {}]
    /\ delivered = [c \in 1..MaxCycles |-> {}]
    /\ ended = ""
    /\ st = StIdle
    /\ od = OdIdle
    /\ \E f \in StateFiles : store = [StoreIdle EXCEPT !.file = f]
    /\ seen0 = seen
    /\ bot = BotIdle
    /\ pending = [q |-> <<>>, next |-> 1, all |-> <<>>]
    /\ ex = ExIdle

\* state = load_state()
LoadState ==
    /\ cmd = "state"
    /\ store.loads < MaxOps
    /\ store' = [store EXCEPT !.state = Some(load_state(store.file)), !.loads = @ + 1]
    /\ UNCHANGED <<mailVars, runVars, st, od, seen0, botVars, ex>>

\* save_state({"last_uid": n}) runs to its end.
SaveState ==
    /\ cmd = "state"
    /\ store.saves < MaxOps
    /\ store.file.exists => store.file.readable
    /\ \E n \in 0..MaxLastUid :
         store' = [store EXCEPT !.file = save_state(State(n)), !.saved = Some(State(n)),
                                !.state = None, !.saves = @ + 1]
    /\ UNCHANGED <<mailVars, runVars, st, od, seen0, botVars, ex>>

\* save_state is cut short (the process is killed, the disk is full):
\* open(STATE_FILE, "w") has truncated the file and a prefix of the text
\* is written.
SaveCutShort ==
    /\ cmd = "state"
    /\ store.saves < MaxOps
    /\ store.file.exists => store.file.readable
    /\ \E n \in 0..MaxLastUid, k \in 0..4 :
         store' = [store EXCEPT !.file = TextFile(SubSeq(JsonDump(State(n)), 1, k)),
                                !.state = None, !.saves = @ + 1]
    /\ UNCHANGED <<mailVars, runVars, st, od, seen0, botVars, ex>>

NextState == LoadState \/ SaveState \/ SaveCutShort

SpecState == InitState /\ [][NextState]_vars

\* ------------------------------------------- Forward Cycle: forward.run
TELEGRAM_CHAT_ID == "chat"

CurUid == uids[idx]
Act(op, uid) == <<op, uid>>

\* Where main goes when forward_run returns or raises an Exception:
\* 'run' sleeps and loops, 'forward' ends the process.
AfterCycle == IF cmd = "run" THEN "sleep" ELSE "exited"

\* main 'run', 'forward': forward_run() is called; run's configuration
\* checks pass and state = load_state().
RunStart ==
    /\ cmd \in {"run", "forward"}
    /\ pc = "start"
    /\ cycle < MaxCycles
    /\ cycle' = cycle + 1
    /\ uids' = <<>>
    /\ idx' = 0
    /\ acts' = <<>>
    /\ seen0' = seen
    /\ store' = [store EXCEPT !.state = Some(load_state(store.file)), !.loads = @ + 1]
    /\ IF load_state(store.file).raised # None
       THEN pc' = AfterCycle /\ ended' = "raised"
       ELSE pc' = "connect" /\ ended' = ""
    /\ UNCHANGED <<mailVars, cmd, dry_run, selected, delivered, st, od, botVars, ex>>

\* KeyboardInterrupt while main 'run' is in forward_run(): print("Stopped."),
\* return 0. In time.sleep(interval), outside the try, and in main 'forward',
\* whose handler is "except Exception", nothing catches it. The post of
\* send_telegram the interrupt may cut short has delivered its text when
\* Telegram answered 200.
Interrupt ==
    /\ pc \in {"connect", "search", "fetch", "send", "mark", "sleep"}
    /\ pc' = "exited"
    /\ ended' = (IF cmd = "run" /\ pc # "sleep" THEN "stopped" ELSE "KeyboardInterrupt")
    /\ st' = StIdle
    /\ delivered' =
          IF pc = "send" /\ st.calls # <<>> /\ st.calls[Len(st.calls)].status = 200
                         /\ st.i + TELEGRAM_MAX_LENGTH >= Len(st.text)
          THEN [delivered EXCEPT ![cycle] = @ \cup {CurUid}]
          ELSE delivered
    /\ UNCHANGED <<mailVars, cmd, dry_run, cycle, uids, idx, acts, selected, od, otherVars>>

\* with IMAPClient(...): OAuth token or login, then select_folder(readonly=False).
Connect ==
    /\ pc = "connect"
    /\ \E o \in {"ok", "error", "no_token"} :
         CASE o = "ok" -> pc' = "search" /\ ended' = ended
           [] o = "error" -> pc' = AfterCycle /\ ended' = "raised"
           [] o = "no_token" -> pc' = "exited" /\ ended' = "sys.exit"
    /\ UNCHANGED <<mailVars, cmd, dry_run, cycle, uids, idx, acts, selected, delivered, st, od, otherVars>>

\* uids = client.search(...); uids = sorted(uids) if uids else []
Search ==
    /\ pc = "search"
    /\ \/ /\ pc' = AfterCycle
          /\ ended' = "returned"
          /\ UNCHANGED <<uids, idx, selected>>
       \/ \E raw \in Listings(UnreadSearch(msgs, seen)) :
            /\ uids' = (IF Len(raw) > 0 THEN sorted(raw) ELSE <<>>)
            /\ selected' = [selected EXCEPT ![cycle] = {raw[i] : i \in 1..Len(raw)}]
            /\ IF Len(raw) = 0
               THEN pc' = AfterCycle /\ ended' = "returned" /\ idx' = idx
               ELSE pc' = "fetch" /\ ended' = ended /\ idx' = 1
    /\ UNCHANGED <<mailVars, cmd, dry_run, cycle, acts, delivered, st, od, otherVars>>

\* continue, or the end of "for uid in uids".
Continue ==
    IF idx < Len(uids)
    THEN pc' = "fetch" /\ idx' = idx + 1 /\ ended' = ended
    ELSE pc' = AfterCycle /\ idx' = idx /\ ended' = "returned"

\* An Exception leaves run.
Raise == pc' = AfterCycle /\ idx' = idx /\ ended' = "raised"

\* Per kind of message, what the code computes from the fetched message:
\* does decode_mime_header raise, is the decoded subject rejected, and the
\* link extract_claude_magic_link returns.
Examined ==
    [k \in 1..Len(MessageKinds) |->
        LET m == MessageKinds[k] IN
        [raises   |-> decode_mime_header_raises(m.header),
         subject  |-> decode_mime_header(m.header),
         rejected |-> SubjectRejected(decode_mime_header(m.header)),
         link     |-> extract_claude_magic_link(m)]]

\* One iteration of the candidate loop up to the call of send_telegram:
\* fetch, decode and re-validate the subject, extract the link.
Fetch ==
    /\ pc = "fetch"
    /\ \E o \in {"ok", "missing", "error"} :
         LET m == Examined[msgs[CurUid]] IN
         IF o # "ok"
         THEN /\ Continue
              /\ acts' = Append(acts, Act("fetch", CurUid))
              /\ UNCHANGED <<seen, st>>
         ELSE /\ seen' = SeenAfterFetch(seen, CurUid, FALSE)
              /\ IF m.raises
                 THEN /\ Raise
                      /\ acts' = Append(acts, Act("fetch", CurUid))
                      /\ st' = st
                 ELSE IF m.rejected \/ m.link = None \/ dry_run
                 THEN /\ Continue
                      /\ acts' = Append(acts, Act("fetch", CurUid))
                      /\ st' = st
                 ELSE /\ pc' = "send"
                      /\ acts' = acts \o <<Act("fetch", CurUid), Act("send", CurUid)>>
                      /\ st' = StCall(m.link[1], TELEGRAM_CHAT_ID)
                      /\ UNCHANGED <<idx, ended>>
    /\ UNCHANGED <<msgs, cmd, dry_run, cycle, uids, selected, delivered, od, otherVars>>

\* ok, err_msg = send_telegram(magic_link) has returned.
RunAfterSend ==
    /\ pc = "send"
    /\ st.pc = "returned"
    /\ st' = StIdle
    /\ IF st.result[1][1]
       THEN /\ pc' = "mark"
            /\ delivered' = [delivered EXCEPT ![cycle] = @ \cup {CurUid}]
            /\ acts' = Append(acts, Act("delivered", CurUid))
            /\ UNCHANGED <<idx, ended>>
       ELSE /\ Continue
            /\ UNCHANGED <<delivered, acts>>
    /\ UNCHANGED <<mailVars, cmd, dry_run, cycle, uids, selected, od, otherVars>>

\* client.set_flags([uid], [b"\\Seen"])
Mark ==
    /\ pc = "mark"
    /\ \/ /\ seen' = seen \cup {CurUid}
          /\ acts' = Append(acts, Act("mark", CurUid))
          /\ Continue
       \/ /\ Raise
          /\ UNCHANGED <<seen, acts>>
    /\ UNCHANGED <<msgs, cmd, dry_run, cycle, uids, selected, delivered, st, od, otherVars>>

\* time.sleep(interval) is over: the next iteration of main's while True.
Wake ==
    /\ pc = "sleep"
    /\ pc' = "start"
    /\ UNCHANGED <<mailVars, cmd, dry_run, cycle, uids, idx, acts, selected, delivered, ended, st, od, otherVars>>

Init ==
    /\ msgs \in [Uids -> 0..Len(MessageKinds)]
    /\ seen \in SUBSET {u \in Uids : msgs[u] # 0}
    /\ cmd \in {"run", "forward"}
    /\ dry_run \in BOOLEAN
    /\ cmd = "run" => ~dry_run
    /\ pc = "start"
    /\ cycle = 0
    /\ uids = <<>>
    /\ idx = 0
    /\ acts = <<>>
    /\ selected = [c \in 1..MaxCycles |-> {}]
    /\ delivered = [c \in 1..MaxCycles |-> {}]
    /\ ended = ""
    /\ st = StIdle
    /\ od = OdIdle
    /\ \E f \in {NoFile, save_state(State(1)), Undecodable} : store = [StoreIdle EXCEPT !.file = f]
    /\ seen0 = seen
    /\ bot = BotIdle
    /\ pending = [q |-> <<>>, next |-> 1, all |-> <<>>]
    /\ ex = ExIdle

Next ==
    \/ RunStart
    \/ Interrupt
    \/ Connect
    \/ Search
    \/ Fetch
    \/ SendHtmlAttempt
    \/ SendPlainAttempt
    \/ RunAfterSend
    \/ Mark
    \/ Wake

Spec == Init /\ [][Next]_vars

\* ------------------- on-demand: get_latest_claude_link_from_gmail
NoMatch == "No Claude login email from today."
NoLinkInMail == "No magic-link URL in today's Claude email."

\* What str(e) gives for the exceptions client.search and client.fetch raise.
ImapErrors == {"socket error", "command SEARCH illegal in state AUTH"}

\* Mutant of SearchFailed: a failed search is reported as no match.
SearchFailed_AsNoMatch(e) == NoMatch

\* except Exception as e: return None, f"IMAP search failed: {e}"
SearchFailed(e) == "IMAP search failed: " \o e

\* except Exception as e: return None, f"Fetch failed: {e}"
FetchFailed(e) == "Fetch failed: " \o e

\* Mutant of LatestUid: the oldest message is taken.
LatestUid_Min(S) == Min(S)

\* uid = max(uids)
LatestUid(S) == Max(S)

OdReturn(o, link, err) == [o EXCEPT !.pc = "returned", !.result = Some(<<link, err>>)]

\* The call, with the configuration checks of lines 210-214.
OdCall ==
    /\ bot.pc = "lookup"
    /\ od.pc = "idle"
    /\ \E o \in {"ok", "no_user", "no_credentials"} :
         od' = CASE o = "ok" -> [OdIdle EXCEPT !.pc = "connect"]
                 [] o = "no_user" -> OdReturn(OdIdle, None, Some("IMAP_USER not set"))
                 [] o = "no_credentials" ->
                      OdReturn(OdIdle, None, Some("Run 'python main.py auth' or set IMAP_PASSWORD"))
    /\ UNCHANGED <<mailVars, runVars, st, otherVars>>

\* with IMAPClient(...): OAuth token or login, then select_folder(readonly=True).
OdConnect ==
    /\ od.pc = "connect"
    /\ \E o \in {"ok", "error", "no_token"} :
         od' = CASE o = "ok" -> [od EXCEPT !.pc = "search"]
                 [] o = "error" -> [od EXCEPT !.pc = "raised"]
                 [] o = "no_token" ->
                      OdReturn(od, None, Some("OAuth expired. Run 'python main.py auth' again."))
    /\ UNCHANGED <<mailVars, runVars, st, otherVars>>

\* uids = client.search(["SUBJECT", "Secure link", "ON", today_str])
OdSearch ==
    /\ od.pc = "search"
    /\ \/ \E e \in ImapErrors :
            od' = OdReturn([od EXCEPT !.trace = Append(@, <<"search", "error">>), !.exc = Some(e)],
                           None, Some(SearchFailed(e)))
       \/ LET o1 == [od EXCEPT !.trace = Append(@, <<"search", "ok">>)] IN
          od' = IF TodaySearch(msgs) = {}
                THEN OdReturn(o1, None, Some(NoMatch))
                ELSE [o1 EXCEPT !.pc = "fetch", !.uids = TodaySearch(msgs)]
    /\ UNCHANGED <<mailVars, runVars, st, otherVars>>

\* uid = max(uids); fetch; re-validate the subject; extract the link.
OdFetch ==
    /\ od.pc = "fetch"
    /\ LET uid == LatestUid(od.uids)
           m   == Examined[msgs[uid]]
       IN  \E o \in {"ok", "missing", "error"}, e \in ImapErrors :
             LET o1 == [od EXCEPT !.fetched = @ \cup {uid}, !.trace = Append(@, <<"fetch", o>>),
                                  !.exc = IF o = "error" THEN Some(e) ELSE None] IN
             /\ o # "error" => e = "socket error"
             /\ od' = CASE o = "error" -> OdReturn(o1, None, Some(FetchFailed(e)))
                        [] o = "missing" -> OdReturn(o1, None, Some("Fetch failed"))
                        [] o = "ok" ->
                             IF m.raises THEN [o1 EXCEPT !.pc = "raised"]
                             ELSE IF m.rejected THEN OdReturn(o1, None, Some(NoMatch))
                             ELSE IF m.link = None THEN OdReturn(o1, None, Some(NoLinkInMail))
                             ELSE OdReturn(o1, m.link, None)
             /\ seen' = (IF o = "ok" THEN SeenAfterFetch(seen, uid, TRUE) ELSE seen)
    /\ UNCHANGED <<msgs, runVars, st, otherVars>>

\* ------------------------------------------------ telegram_bot: the Bot Loop
\* Longest sequence of updates Telegram receives for the bot.
MaxUpdates == 2

\* The updates of getUpdates: the field that carries the message, the chat
\* it came from, and its text (None: a photo, a sticker).
UMsg(field, chat, text) == [field |-> field, chat |-> chat, text |-> text]

UpdateKinds ==
    << UMsg("message", "chat", Some("/link")),
       UMsg("edited_message", "chat", Some("  Get Link \n")),
       UMsg("message", "chat", Some("/start")),
       UMsg("message", "stranger", Some("/link")),
       UMsg("message", "chat", Some("hello")),
       UMsg("message", "chat", Some("/link@claude_bot")),
       UMsg("message", "chat", None),
       UMsg("message", "stranger", Some("Start")),
       UMsg("channel_post", "chat", Some("/link")) >>

Commands == {"/link", "link", "/getlink", "get link", "/start", "start"}

Greeting == "Hi! Use /link to get the latest Claude sign-in link from today's email."
\* The source ends this text with the one-character ellipsis.
Checking == "Checking your email..."
NoLinkFound == "No link found."

\* Mutant of Handled: the chat of the update is not compared with
\* TELEGRAM_CHAT_ID.
Handled_AnyChat ==
    [k \in 1..Len(UpdateKinds) |->
        LET u    == UpdateKinds[k]
            msg  == u.field \in {"message", "edited_message"}
            text == IF msg /\ u.text # None THEN Lower(Strip(u.text[1])) ELSE ""
        IN  [text    |-> text,
             chat_id |-> u.chat,
             consumed |-> msg /\ text # "" /\ text \in Commands,
             start   |-> text \in {"/start", "start"}]]

\* handle_update up to its first reply, per kind of update: msg, text and
\* the three early returns.
Handled ==
    [k \in 1..Len(UpdateKinds) |->
        LET u    == UpdateKinds[k]
            msg  == u.field \in {"message", "edited_message"}
            text == IF msg /\ u.text # None THEN Lower(Strip(u.text[1])) ELSE ""
        IN  [text    |-> text,
             chat_id |-> u.chat,
             consumed |-> msg /\ text # "" /\ u.chat = TELEGRAM_CHAT_ID /\ text \in Commands,
             start   |-> text \in {"/start", "start"}]]

\* Mutant of GetUpdates: the update whose id is the offset is not returned.
GetUpdates_AboveOffset(q, offset) ==
    IF offset = None THEN q ELSE SelectSeq(q, LAMBDA u : u.update_id > offset[1])

\* What getUpdates(offset) returns of the queue q: the updates from offset on.
GetUpdates(q, offset) ==
    IF offset = None THEN q ELSE SelectSeq(q, LAMBDA u : u.update_id >= offset[1])

Ev(what, id, chat, text) == [what |-> what, update_id |-> id, chat_id |-> chat, text |-> text]

CurUpdate == bot.batch[bot.k]

\* The next update of "for u in data.get('result', [])", or the next getUpdates.
NextUpdate(b) ==
    IF b.k < Len(b.batch) THEN [b EXCEPT !.pc = "dispatch", !.k = b.k + 1]
    ELSE [b EXCEPT !.pc = "poll", !.batch = <<>>, !.k = 0]

\* Mutant of BotCaught: the exception ends the loop.
BotCaught_Break(b, id) ==
    [b EXCEPT !.pc = "stopped", !.batch = <<>>, !.k = 0,
              !.log = Append(@, Ev("error", id, "", "")),
              !.dropped = @ \cup {b.batch[i].update_id : i \in (b.k + 1)..Len(b.batch)}]

\* except Exception as e: print(f"Error: {e}"), then the next getUpdates.
BotCaught(b, id) ==
    [b EXCEPT !.pc = "poll", !.batch = <<>>, !.k = 0,
              !.log = Append(@, Ev("error", id, "", "")),
              !.dropped = @ \cup {b.batch[i].update_id : i \in (b.k + 1)..Len(b.batch)}]

\* r = requests.get(getUpdates, offset): the request fails, the status is
\* not 200, the body is not JSON, "ok" is false, or the updates arrive.
Poll ==
    /\ bot.pc = "poll"
    /\ \E o \in {"exception", "not200", "badjson", "notok", "ok"} :
         IF o = "ok"
         THEN LET result == GetUpdates(pending.q, bot.offset) IN
              /\ pending' = [pending EXCEPT !.q = result]
              /\ bot' = IF Len(result) = 0 THEN [bot EXCEPT !.polls = o]
                        ELSE [bot EXCEPT !.pc = "dispatch", !.batch = result, !.k = 1, !.polls = o]
         ELSE /\ bot' = [bot EXCEPT !.polls = o]
              /\ pending' = pending
    /\ UNCHANGED <<mailVars, runVars, st, od, store, seen0, ex>>

\* Mutant of NextOffset: the cursor stays on the update in hand.
NextOffset_Same(u) == Some(u.update_id)

\* offset = u["update_id"] + 1
NextOffset(u) == Some(u.update_id + 1)

\* offset = u["update_id"] + 1; handle_update(u) up to its first reply.
Dispatch ==
    /\ bot.pc = "dispatch"
    /\ LET u == CurUpdate
           h == Handled[u.kind]
           b == [bot EXCEPT !.offset = NextOffset(u),
                            !.log = Append(@, Ev("dispatch", u.update_id, "", ""))]
       IN  IF ~h.consumed
           THEN bot' = NextUpdate(b) /\ st' = st
           ELSE IF h.start
           THEN /\ bot' = [b EXCEPT !.pc = "greet",
                                    !.log = Append(@, Ev("reply", u.update_id, h.chat_id, Greeting))]
                /\ st' = StCall(Greeting, h.chat_id)
           ELSE /\ bot' = [b EXCEPT !.pc = "ack",
                                    !.log = Append(@, Ev("reply", u.update_id, h.chat_id, Checking))]
                /\ st' = StCall(Checking, h.chat_id)
    /\ UNCHANGED <<mailVars, runVars, od, store, seen0, pending, ex>>

\* reply(chat_id, greeting) has returned: return True.
AfterGreet ==
    /\ bot.pc = "greet"
    /\ st.pc = "returned"
    /\ st' = StIdle
    /\ bot' = NextUpdate(bot)
    /\ UNCHANGED <<mailVars, runVars, od, store, seen0, pending, ex>>

\* reply(chat_id, "Checking your email...") has returned:
\* get_latest_claude_link_from_gmail() is called.
AfterAck ==
    /\ bot.pc = "ack"
    /\ st.pc = "returned"
    /\ st' = StIdle
    /\ bot' = [bot EXCEPT !.pc = "lookup",
                          !.log = Append(@, Ev("lookup", CurUpdate.update_id, "", ""))]
    /\ UNCHANGED <<mailVars, runVars, od, store, seen0, pending, ex>>

\* link, err = get_latest_claude_link_from_gmail() has returned, or raised.
AfterLookup ==
    /\ bot.pc = "lookup"
    /\ od.pc \in {"returned", "raised"}
    /\ LET u == CurUpdate
           h == Handled[u.kind]
       IN  IF od.pc = "raised"
           THEN /\ bot' = BotCaught(bot, u.update_id)
                /\ od' = OdIdle
                /\ st' = st
           ELSE LET link == od.result[1][1]
                    err  == od.result[1][2]
                    text == IF link # None THEN link[1]
                            ELSE IF err # None /\ err[1] # "" THEN err[1] ELSE NoLinkFound
                IN  /\ bot' = [bot EXCEPT !.pc = "answer",
                                          !.log = Append(@, Ev("reply", u.update_id, h.chat_id, text))]
                    /\ st' = StCall(text, h.chat_id)
                    /\ od' = od
    /\ UNCHANGED <<mailVars, runVars, store, seen0, pending, ex>>

\* The last reply has returned: return True.
AfterAnswer ==
    /\ bot.pc = "answer"
    /\ st.pc = "returned"
    /\ st' = StIdle
    /\ od' = OdIdle
    /\ bot' = NextUpdate(bot)
    /\ UNCHANGED <<mailVars, runVars, store, seen0, pending, ex>>

\* KeyboardInterrupt anywhere in the try block: the calls in progress are
\* unwound, print("Stopped."), break.
BotInterrupt ==
    /\ bot.pc \in {"poll", "dispatch", "greet", "ack", "lookup", "answer"}
    /\ bot' = [bot EXCEPT !.pc = "stopped", !.batch = <<>>, !.k = 0,
                          !.log = Append(@, Ev("interrupt", 0, "", bot.pc))]
    /\ st' = StIdle
    /\ od' = OdIdle
    /\ UNCHANGED <<mailVars, runVars, store, seen0, pending, ex>>

\* Somebody sends the bot a message: /link or /start from the authorized
\* chat, /link from a stranger. The queue is read by getUpdates only, so an
\* arrival is placed just before a getUpdates.
Arrive ==
    /\ bot.pc = "poll"
    /\ pending.next <= MaxUpdates
    /\ \E k \in {1, 3, 4} :
         pending' = [q |-> Append(pending.q, [update_id |-> pending.next, kind |-> k]),
                     next |-> pending.next + 1,
                     all |-> Append(pending.all, k)]
    /\ UNCHANGED <<mailVars, runVars, st, od, store, seen0, bot, ex>>

BotStart == [BotIdle EXCEPT !.pc = "poll"]

NotRunning ==
    /\ dry_run = FALSE
    /\ cycle = 0
    /\ uids = <<>>
    /\ idx = 0
    /\ acts = <<>>
    /\ selected = [c \in 1..MaxCycles |-> {}]
    /\ delivered = [c \in 1..MaxCycles |-> {}]
    /\ ended = ""

\* The Bot Loop with one update of any kind, the mailbox in any state.
InitBot ==
    /\ msgs \in [Uids -> 0..Len(MessageKinds)]
    /\ seen \in {{}, {u \in Uids : msgs[u] # 0}}
    /\ cmd = "bot"
    /\ pc = "bot"
    /\ NotRunning
    /\ st = StIdle
    /\ od = OdIdle
    /\ store = StoreIdle
    /\ seen0 = seen
    /\ bot = BotStart
    /\ \E k \in 1..Len(UpdateKinds) :
         pending = [q |-> <<[update_id |-> 1, kind |-> k]>>, next |-> 2, all |-> <<k>>]
    /\ ex = ExIdle

HandlerNext ==
    \/ Poll
    \/ Dispatch
    \/ SendHtmlAttempt
    \/ SendPlainAttempt
    \/ AfterGreet
    \/ AfterAck
    \/ OdCall
    \/ OdConnect
    \/ OdSearch
    \/ OdFetch
    \/ AfterLookup
    \/ AfterAnswer

NextBot == HandlerNext

SpecBot == InitBot /\ [][NextBot]_vars

\* The Bot Loop over the updates that arrive, the mailbox holding one
\* message at most.
InitLoop ==
    /\ \E k \in {1, 5} : msgs = [u \in Uids |-> IF u = 1 THEN k ELSE 0]
    /\ seen = {}
    /\ cmd = "bot"
    /\ pc = "bot"
    /\ NotRunning
    /\ st = StIdle
    /\ od = OdIdle
    /\ store = StoreIdle
    /\ seen0 = seen
    /\ bot = BotStart
    /\ pending = [q |-> <<>>, next |-> 1, all |-> <<>>]
    /\ ex = ExIdle

NextLoop == HandlerNext \/ Arrive \/ BotInterrupt

SpecLoop == InitLoop /\ [][NextLoop]_vars

\* A getUpdates that succeeds.
PollOk == Poll /\ bot'.polls = "ok"

\* The steps of handle_update and of the calls it makes.
HandlerSteps ==
    \/ Dispatch
    \/ SendHtmlAttempt
    \/ SendPlainAttempt
    \/ AfterGreet
    \/ AfterAck
    \/ OdCall
    \/ OdConnect
    \/ OdSearch
    \/ OdFetch
    \/ AfterLookup
    \/ AfterAnswer

\* The Bot Loop with a mailbox that holds one good message.
InitLoopFair == InitLoop /\ msgs[1] = 1

\* while True keeps the loop running: the handling in hand goes on, and a
\* transport that keeps redelivering answers a getUpdates in the end.
SpecLoopFair ==
    InitLoopFair /\ [][NextLoop]_vars /\ WF_vars(HandlerSteps) /\ WF_vars(PollOk)

\* ====================================================== properties, Spec
\* A Forward Cycle has ended by itself: it returned, raised or called sys.exit.
CycleOver ==
    cycle >= 1 /\ pc \in {"sleep", "exited"} /\ ended \in {"returned", "raised", "sys.exit"}
Done(op) == {acts[i][2] : i \in {j \in 1..Len(acts) : acts[j][1] = op}}

\* C1: in a cycle without dry_run, a selected message has its read flag
\* set only once send_telegram has returned success for its link in this
\* cycle; a candidate that was not delivered is unread when the cycle ends.
C1_ReadOnlyAfterDelivery ==
    (cycle >= 1 /\ ~dry_run) =>
        \A u \in selected[cycle] : u \in seen => u \in delivered[cycle]

\* C2 as stated: the second of two successive cycles delivers nothing.
C2_SecondRunDeliversNothing ==
    \A c \in 2..MaxCycles : delivered[c] = {}

\* C2 amended: a message whose link a cycle delivered is not selected by
\* the unread search of any later cycle, so no link is delivered twice.
C2_DeliveredNotReselected ==
    \A c, d \in 1..MaxCycles :
        c < d => delivered[c] \cap selected[d] = {} /\ delivered[c] \cap delivered[d] = {}

C2_Witness ==
    /\ cycle = 2
    /\ delivered[1] # {}
    /\ selected[2] # {}
    /\ delivered[2] # {}

\* C3: an error on one candidate never ends the candidate loop: when the
\* cycle is over, every selected candidate has been fetched.
C3_LoopSurvivesCandidateErrors ==
    CycleOver => \A i \in 1..Len(uids) : uids[i] \in Done("fetch")

\* C4: every id the unread search returned is processed, in ascending id
\* order: the operations of a cycle never go back to a smaller id, and when
\* the cycle is over the ids fetched, in order, are the selected ids sorted.
C4_AllSelectedInAscendingOrder ==
    /\ \A i, j \in 1..Len(acts) : i < j => acts[i][2] <= acts[j][2]
    /\ CycleOver =>
          /\ {uids[i] : i \in 1..Len(uids)} = selected[cycle]
          /\ SelectSeq(acts, LAMBDA a : a[1] = "fetch")
                = [i \in 1..Len(uids) |-> Act("fetch", uids[i])]

\* Per kind of message: the decoded subject contains, ignoring case, both
\* "secure link" and "claude".
HasBothKeywords ==
    [k \in 1..Len(MessageKinds) |->
        /\ ~Examined[k].raises
        /\ Contains(Lower(Examined[k].subject), "secure link")
        /\ Contains(Lower(Examined[k].subject), "claude")]

\* C5: a selected message whose decoded subject lacks one of the two
\* keywords is neither delivered nor marked read by the cycle.
C5_RejectedNeitherDeliveredNorRead ==
    cycle >= 1 =>
        \A u \in selected[cycle] :
            (~Examined[msgs[u]].raises /\ ~HasBothKeywords[msgs[u]]) =>
                u \notin delivered[cycle] /\ u \notin seen

\* =================================================== properties, SpecBot
\* C10: the on-demand selection searches without the unread restriction,
\* fetches only the message with the greatest id of the search result, and
\* a link it returns is the link of that message, whose decoded subject
\* holds both keywords.
C10_OnDemandLatestOnly ==
    /\ Cardinality(od.fetched) <= 1
    /\ od.pc = "fetch" =>
          od.uids = {u \in Uids : msgs[u] # 0 /\ SearchHit[msgs[u]]}
    /\ \A u \in od.fetched : u \in od.uids /\ \A v \in od.uids : v <= u
    /\ (od.pc = "returned" /\ od.result[1][1] # None) =>
          /\ od.result[1][2] = None
          /\ \E u \in od.fetched :
                /\ od.result[1][1] = Examined[msgs[u]].link
                /\ HasBothKeywords[msgs[u]]

C10_Witness ==
    /\ od.pc = "returned"
    /\ od.result[1][1] # None
    /\ Cardinality(od.uids) >= 2
    /\ \E u \in od.uids, v \in od.uids :
          /\ u < v
          /\ v \in seen
          /\ Examined[msgs[u]].link # None
          /\ Examined[msgs[u]].link # od.result[1][1]

\* ================================================== properties, SpecSend
RECURSIVE ConcatAll(_)
\* The concatenation of a non-empty list of texts.
ConcatAll(ts) == IF Len(ts) = 1 THEN ts[1] ELSE ts[1] \o ConcatAll(Tail(ts))

CallTexts == [k \in 1..Len(st.calls) |-> st.calls[k].text]
AllAccepted == \A k \in 1..Len(st.calls) : st.calls[k].status = 200
ReturnedOk == st.pc = "returned" /\ st.result = Some(<<TRUE, None>>)
ReturnedFailure == st.pc = "returned" /\ st.result # None /\ st.result[1][1] = FALSE

\* C6: for a text of length n >= 1, when every post succeeds, send_telegram
\* returns success after exactly ceil(n / 4050) posts, each carrying at most
\* 4050 units, whose texts in order concatenate to the text; a text of
\* length 10000 gives posts of lengths 4050, 4050, 1900.
C6_ChunkedDelivery ==
    (st.pc = "returned" /\ Len(st.text) >= 1 /\ AllAccepted) =>
        /\ ReturnedOk
        /\ Len(st.calls) = (Len(st.text) + 4050 - 1) \div 4050
        /\ \A k \in 1..Len(st.calls) : Len(st.calls[k].text) \in 1..4050
        /\ ConcatAll(CallTexts) = st.text
        /\ (Len(st.text) = 10000 =>
              [k \in 1..Len(st.calls) |-> Len(st.calls[k].text)] = <<4050, 4050, 1900>>)

C6_Witness ==
    /\ ReturnedOk
    /\ Len(st.text) = 10000
    /\ Len(st.calls) = 3
    /\ AllAccepted

\* A post that ends its slice in failure: a network error, or a
\* non-success answer to the plain-text post.
SliceFailedAt(k) ==
    \/ st.calls[k].status = 0
    \/ st.calls[k].parse_mode = "" /\ st.calls[k].status # 200

AcceptedTexts == SelectSeq(st.calls, LAMBDA c : c.status = 200)

\* C7: once a slice has failed, send_telegram has returned failure and no
\* further post is made; success is returned only if every slice was
\* accepted; the posts already made stay made.
C7_FailsOnFirstSliceFailure ==
    /\ [](\A k \in 1..Len(st.calls) :
            SliceFailedAt(k) => k = Len(st.calls) /\ ReturnedFailure)
    /\ []((ReturnedOk /\ Len(st.text) >= 1) =>
            ConcatAll([k \in 1..Len(AcceptedTexts) |-> AcceptedTexts[k].text]) = st.text)
    /\ [][(st.pc # "idle" /\ st'.pc # "idle") =>
            /\ Len(st'.calls) >= Len(st.calls)
            /\ SubSeq(st'.calls, 1, Len(st.calls)) = st.calls]_vars

C7_Witness ==
    /\ ReturnedFailure
    /\ Len(st.calls) >= 2
    /\ st.calls[1].status = 200
    /\ SliceFailedAt(Len(st.calls))
    /\ st.i + TELEGRAM_MAX_LENGTH < Len(st.text)

\* C8: a plain-text post directly follows the HTML post of the same slice,
\* which returned a non-success response; an HTML post is the first post of
\* its slice; no slice gets more than two posts or more than one plain one.
C8_HtmlFirstThenOnePlain ==
    /\ \A k \in 1..Len(st.calls) :
         st.calls[k].parse_mode = "" =>
            /\ k > 1
            /\ st.calls[k - 1].parse_mode = "HTML"
            /\ st.calls[k - 1].i = st.calls[k].i
            /\ st.calls[k - 1].status \notin {0, 200}
    /\ \A k \in 1..Len(st.calls) :
         st.calls[k].parse_mode = "HTML" => \A j \in 1..(k - 1) : st.calls[j].i < st.calls[k].i
    /\ \A k \in 1..Len(st.calls) :
         /\ Cardinality({j \in 1..Len(st.calls) : st.calls[j].i = st.calls[k].i}) <= 2
         /\ Cardinality({j \in 1..Len(st.calls) :
                st.calls[j].i = st.calls[k].i /\ st.calls[j].parse_mode = ""}) <= 1

C8_Witness ==
    /\ Len(st.calls) >= 2
    /\ st.calls[Len(st.calls)].parse_mode = ""
    /\ st.calls[Len(st.calls) - 1].status \notin {0, 200}

ReasonOf(s) == s.result[1][2][1]
\* C9: the reason of a failed slice is classified: 403 with a description
\* containing "can't initiate conversation" gives the actionable reason, any
\* other non-success response a reason carrying its status and description,
\* a network-level failure a third reason; the classes share no reason.
C9_ReasonClassified ==
    ReturnedFailure =>
        IF st.last[1].exc # None
        THEN /\ StartsWith(ReasonOf(st), "Telegram request failed: ")
             /\ Contains(ReasonOf(st), st.last[1].exc[1])
        ELSE LET r    == st.last[1].r[1]
                 desc == IF r.json # None THEN r.json[1].description ELSE None
             IN  IF r.status_code = 403 /\ desc # None
                    /\ Contains(Lower(desc[1]), "can't initiate conversation")
                 THEN ReasonOf(st) = MustMessageFirst
                 ELSE /\ ReasonOf(st) # MustMessageFirst
                      /\ ~StartsWith(ReasonOf(st), "Telegram request failed: ")
                      /\ Contains(ReasonOf(st), ToString(r.status_code))
                      /\ (desc # None => Contains(ReasonOf(st), desc[1]))

\* ================================================== properties, SpecBot
\* C11: when the on-demand selection returns, an empty search result or a
\* fetched message whose subject fails the re-validation gives the
\* no-match message; a search or fetch that raised gives another message,
\* which holds the text of the exception, and a fetch that returned no
\* data gives another message too; and the reply the bot makes after a
\* no-match outcome is the literal no-match text, sent to the
\* authorized chat.
C11_NoMatchVersusTechnicalError ==
    /\ od.pc = "returned" /\ od.trace # <<>> =>
          LET link == od.result[1][1]
              err  == od.result[1][2]
              last == od.trace[Len(od.trace)]
          IN  /\ (last = <<"search", "ok">> /\ TodaySearch(msgs) = {}) => err = Some(NoMatch)
              /\ (last = <<"fetch", "ok">>
                    /\ \E u \in od.fetched : ~Examined[msgs[u]].raises /\ Examined[msgs[u]].rejected)
                      => err = Some(NoMatch)
              /\ last[2] = "error" =>
                    /\ link = None /\ err # None /\ err[1] # NoMatch
                    /\ od.exc # None /\ Contains(err[1], od.exc[1])
              /\ last[2] = "missing" => link = None /\ err # None /\ err[1] # NoMatch
    /\ (bot.pc = "answer" /\ od.result[1][2] = Some(NoMatch)) =>
          /\ st.text = NoMatch
          /\ st.cid = TELEGRAM_CHAT_ID
          /\ bot.log[Len(bot.log)] = Ev("reply", CurUpdate.update_id, TELEGRAM_CHAT_ID, NoMatch)

\* A /link of the authorized chat was answered with the no-match text after
\* a fetched message failed the re-validation.
C11_Witness ==
    /\ bot.pc = "answer"
    /\ st.pc = "returned"
    /\ st.text = NoMatch
    /\ od.trace = << <<"search", "ok">>, <<"fetch", "ok">> >>
    /\ Handled[CurUpdate.kind].text = "/link"

\* A search that raised was answered with the technical message.
C11_WitnessError ==
    /\ bot.pc = "answer"
    /\ od.exc # None
    /\ od.trace = << <<"search", "error">> >>

\* The normalised text of update id: trimmed and lower-cased, "" without text.
TextOf(id) == Handled[pending.all[id]].text
ChatOf(id) == UpdateKinds[pending.all[id]].chat
Recognised(id) == ChatOf(id) = TELEGRAM_CHAT_ID /\ TextOf(id) \in Commands

\* C12: an update from another chat than the authorized one, or whose
\* trimmed, lower-cased text is not a command, gets no reply and causes no
\* mailbox access: every reply and every lookup belongs to a command of
\* the authorized chat, replies go to the authorized chat only, and
\* send_telegram and the on-demand selection are active only while such a
\* command is handled.
C12_OnlyAuthorizedCommands ==
    /\ \A i \in 1..Len(bot.log) :
          bot.log[i].what \in {"reply", "lookup"} =>
              /\ Recognised(bot.log[i].update_id)
              /\ bot.log[i].what = "reply" => bot.log[i].chat_id = TELEGRAM_CHAT_ID
    /\ (st.pc # "idle" \/ od.pc # "idle") =>
          /\ bot.pc \in {"greet", "ack", "lookup", "answer"}
          /\ Recognised(CurUpdate.update_id)
          /\ st.pc # "idle" => st.cid = TELEGRAM_CHAT_ID
    /\ od.pc # "idle" => TextOf(CurUpdate.update_id) \notin {"/start", "start"}

\* A stranger's /link was dispatched and passed over without any reply.
C12_Witness ==
    /\ bot.pc = "poll"
    /\ Len(pending.all) >= 1
    /\ ChatOf(1) = "stranger" /\ TextOf(1) = "/link"
    /\ bot.log = <<Ev("dispatch", 1, "", "")>>
    /\ bot.offset = Some(2)

\* ================================================= properties, SpecLoop
LastEvent(b) == b.log[Len(b.log)]

\* C13: in the Bot Loop an exception raised while handling an update is
\* logged and the loop is back at getUpdates; a failed receive or an
\* undecodable response leaves the loop at getUpdates; the loop ends on
\* the stop signal only.
C13_OnlyStopSignalEndsLoop ==
    [][/\ (bot.pc # "stopped" /\ bot'.pc = "stopped") =>
            LastEvent(bot').what = "interrupt"
       /\ (bot.pc = "lookup" /\ od.pc = "raised" /\ bot' # bot /\ bot'.pc # "stopped") =>
            /\ bot'.pc = "poll"
            /\ LastEvent(bot') = Ev("error", CurUpdate.update_id, "", "")
       /\ (bot.pc = "poll" /\ bot' # bot /\ bot'.pc # "stopped") =>
            IF bot'.polls = "ok" THEN bot'.pc \in {"poll", "dispatch"} ELSE bot'.pc = "poll"
      ]_vars

\* After an exception in the handling of one update, a later update was
\* dispatched and answered.
C13_Witness ==
    \E i, j \in 1..Len(bot.log) :
        /\ i < j
        /\ bot.log[i].what = "error"
        /\ bot.log[j].what = "reply"
        /\ bot.log[j].update_id > bot.log[i].update_id

\* ============================ properties, Spec: Scheduler, dry run, state
\* C14: under main 'run', a Forward Cycle that ends in an error, a
\* connectivity error and an unavailable credential included, does not end
\* the Scheduler: the process has not exited.
C14_SchedulerSurvivesCycleErrors ==
    (cmd = "run" /\ cycle >= 1 /\ ended \in {"raised", "sys.exit"}) => pc # "exited"

\* C15: when an interrupt has ended the Scheduler, during a Forward Cycle
\* or during the sleep, the handler of main has caught it (the loop ended
\* cleanly) and every message whose link was delivered has its read flag.
C15_InterruptEndsCleanly ==
    (cmd = "run" /\ ended \in {"stopped", "KeyboardInterrupt"}) =>
        /\ ended = "stopped"
        /\ \A c \in 1..MaxCycles : delivered[c] \subseteq seen

\* C16: a Forward Cycle with --dry-run calls send_telegram for no message
\* and leaves the read flag of every message as it was when the cycle
\* started.
C16_DryRunLeavesMailbox ==
    (dry_run /\ cycle >= 1) =>
        /\ seen = seen0
        /\ Done("send") = {}
        /\ st = StIdle

\* C18: a Forward Cycle that has returned has read the ProcessingState
\* once, at its start, and has written it once since: each of the cycles
\* of the process so far counts one load_state and one save_state.
C18_StateReadThenWritten ==
    (CycleOver /\ ended = "returned") =>
        /\ store.state # None
        /\ store.loads = cycle
        /\ store.saves = cycle

\* ================================================ properties, SpecState
\* The value load_state finds is a ProcessingState: an object holding an
\* integer last_uid.
IsProcessingState(v) == Len(v) = 4 /\ v[1] = "object" /\ v[2] = "last_uid" /\ v[3] = "int"

\* state.json is missing or corrupt: it cannot be opened, is no text, does
\* not parse, or parses to something that is no ProcessingState.
Corrupt(f) ==
    \/ ~f.exists
    \/ ~f.readable
    \/ ~f.utf8
    \/ JsonLoad(f.text) = None
    \/ ~IsProcessingState(JsonLoad(f.text)[1])

\* C17: load_state never raises; on a missing or corrupt file it returns
\* {"last_uid": 0}; after a save_state that ran to its end it returns the
\* state that was saved.
C17_LoadNeverRaisesDefaultOnCorrupt ==
    store.state # None =>
        LET r == store.state[1] IN
        /\ r.raised = None
        /\ Corrupt(store.file) => r.value = Some(DefaultState)
        /\ (store.saved # None /\ store.file = save_state(store.saved[1])) => r.value = store.saved

\* ============================================== properties, SpecExtract
\* The positions of the parts of ex whose text holds the link.
WithLink(e) == {i \in 1..Len(e.parts) : Parts[e.parts[i]].url # None}

\* C19: for a message with the link in one of its parts, whatever the
\* charset of the part, extract_claude_magic_link returns the link of the
\* first such part in traversal order, without the quote, parenthesis or
\* bracket that follows it in the text.
C19_ExtractReturnsFirstMatch ==
    (ex.pc = "done" /\ WithLink(ex) # {}) =>
        ex.result = Parts[ex.parts[Min(WithLink(ex))]].url

\* C20: no step of the Bot Loop, the handling of a greeting or of a link
\* request included, changes the mailbox (messages and read flags) or the
\* ProcessingState (the file, and the counts of load_state and save_state
\* calls), so the unread search of a later Forward Cycle selects the same
\* messages.
C20_BotLeavesMailboxAndState ==
    [][/\ msgs' = msgs
       /\ seen' = seen
       /\ store' = store
       /\ UnreadSearch(msgs', seen') = UnreadSearch(msgs, seen)
      ]_vars

\* A link request was answered with the link of an unread message, which
\* a Forward Cycle would still select.
C20_Witness ==
    /\ bot.pc = "answer"
    /\ st.pc = "returned"
    /\ od.result[1][1] # None
    /\ od.fetched # {}
    /\ od.fetched \subseteq UnreadSearch(msgs, seen)

\* The events of the log that belong to update id, in order.
EventsOf(id) == SelectSeq(bot.log, LAMBDA e : e.update_id = id)

\* Update id is a link request of the authorized chat.
LinkRequest(id) == Recognised(id) /\ TextOf(id) \notin {"/start", "start"}

\* handle_update(id) was called and is over: it returned or raised.
HandlingOver(id) ==
    /\ \E i \in 1..Len(bot.log) : bot.log[i] = Ev("dispatch", id, "", "")
    /\ bot.pc \in {"poll", "dispatch"} \/ (bot.pc # "stopped" /\ CurUpdate.update_id # id)
    /\ bot.pc = "dispatch" => CurUpdate.update_id # id

\* C21: once the handling of a link request of the authorized chat is
\* over, whatever the mailbox access gave, the bot has sent the
\* acknowledgment, then contacted the mailbox, then sent exactly one more
\* reply to the requester.
C21_AckThenExactlyOneReply ==
    \A id \in 1..Len(pending.all) :
        (LinkRequest(id) /\ HandlingOver(id)) =>
            LET evs == EventsOf(id) IN
            /\ Len(evs) = 4
            /\ evs[2] = Ev("reply", id, TELEGRAM_CHAT_ID, Checking)
            /\ evs[3].what = "lookup"
            /\ evs[4].what = "reply" /\ evs[4].chat_id = TELEGRAM_CHAT_ID

\* The ids of the updates dispatched to handle_update so far.
Dispatched == {bot.log[i].update_id : i \in {j \in 1..Len(bot.log) : bot.log[j].what = "dispatch"}}

OffsetValue(b) == IF b.offset = None THEN 0 ELSE b.offset[1]

\* C22: the offset of the Bot Loop never decreases; it is unset before
\* the first dispatch and one more than the greatest dispatched update id
\* after it; no update id is dispatched twice, the ids whose handling raised
\* included.
C22_CursorMonotoneNoRedispatch ==
    /\ [](/\ bot.offset = (IF Dispatched = {} THEN None ELSE Some(Max(Dispatched) + 1))
          /\ \A i, j \in 1..Len(bot.log) :
                (i < j /\ bot.log[i].what = "dispatch" /\ bot.log[j].what = "dispatch")
                    => bot.log[i].update_id < bot.log[j].update_id)
    /\ [][OffsetValue(bot') >= OffsetValue(bot)]_vars

\* The handling of update 1 raised, a later getUpdates succeeded, and
\* update 2 was dispatched: update 1 was not dispatched again.
C22_Witness ==
    /\ bot.pc = "poll"
    /\ bot.polls = "ok"
    /\ bot.offset = Some(3)
    /\ \E i \in 1..Len(bot.log) : bot.log[i] = Ev("error", 1, "", "")
    /\ Dispatched = {1, 2}
    /\ pending.q = <<>>

\* C23: an update left in a batch whose handling was cut by an exception
\* of an earlier update is not lost: until it is dispatched it is at or
\* after the offset and Telegram still holds it, and, the loop not being
\* stopped, it is dispatched to handle_update in the end.
C23_FollowingUpdatesRedelivered ==
    /\ [](\A id \in bot.dropped \ Dispatched :
            /\ OffsetValue(bot) <= id
            /\ \E i \in 1..Len(pending.q) : pending.q[i].update_id = id)
    /\ \A id \in 1..MaxUpdates :
          (id \in bot.dropped) ~> (id \in Dispatched \/ bot.pc = "stopped")

\* Update 2 was left in the batch when the handling of update 1 raised,
\* and has been dispatched since.
C23_Witness ==
    /\ 2 \in bot.dropped
    /\ 2 \in Dispatched
    /\ \E i \in 1..Len(bot.log) : bot.log[i] = Ev("error", 1, "", "")
    /\ bot.pc # "stopped"

====
